---------------------------- MODULE Spec2Model ----------------------------
(***************************************************************************)
(* The alt_bn128 precompiles of src/precompiles/bn128.rs: BN128Add,        *)
(* BN128Mul and BN128Pair, each under the Byzantium and the Istanbul gas   *)
(* schedule.                                                               *)
(*                                                                         *)
(* Byte strings keep their real lengths (32-byte lanes, 64-byte points,    *)
(* 128-byte ADD/MUL inputs, 192-byte pairing elements).  The bn library is *)
(* an external oracle; it is modelled by the same construction over a      *)
(* small field: Fq = GF(7), the curve y^2 = x^3 + 3 (13 points, so         *)
(* Fr = GF(13)), Fq2 = Fq[u]/(u^2 + 1), the twist y^2 = x^3 + 3/(9 + u)    *)
(* (52 points, cofactor 4) and a bilinear pairing into a group of order    *)
(* 13 written additively.                                                  *)
(***************************************************************************)
EXTENDS Integers, Sequences, FiniteSets, TLC

VARIABLES op, fork, entry, input, target_gas, pc, result, vals

vars == <<op, fork, entry, input, target_gas, pc, result, vals>>

(***************************************************************************)
(* mod costs                                                               *)
(***************************************************************************)
BYZANTIUM_ADD == 500
BYZANTIUM_MUL == 40000
BYZANTIUM_PAIR_PER_POINT == 80000
BYZANTIUM_PAIR_BASE == 100000
ISTANBUL_ADD == 150
ISTANBUL_MUL == 6000
ISTANBUL_PAIR_PER_POINT == 34000
ISTANBUL_PAIR_BASE == 45000

(***************************************************************************)
(* mod consts                                                              *)
(***************************************************************************)
ADD_INPUT_LEN == 128
MUL_INPUT_LEN == 128
PAIR_ELEMENT_LEN == 192

(***************************************************************************)
(* Results.  PrecompileResult = Result<(ExitSucceed, Vec<u8>, u64),        *)
(* ExitError>.  The messages of ExitError::Other are the source's, written *)
(* without the backquotes around x, y, a and b.                            *)
(***************************************************************************)
Returned(output) == [ok |-> TRUE, status |-> "Returned", output |-> output, cost |-> 0]
OutOfGas == [ok |-> FALSE, error |-> "OutOfGas"]
Other(msg) == [ok |-> FALSE, error |-> msg]
GasOk(g) == [ok |-> TRUE, gas |-> g]
None == [ok |-> FALSE, error |-> "none"]

(***************************************************************************)
(* Bytes.  A lane is 32 big-endian bytes.                                  *)
(***************************************************************************)
LANE == 32

(* input[from..to) with Rust's 0-based half-open range *)
Slice(s, from, to) == [i \in 1..(to - from) |-> s[from + i]]

(* a resize that fills with 0x11 *)
Resize_fill_nonzero(s, n) == [i \in 1..n |-> IF i <= Len(s) THEN s[i] ELSE 17]

(* Vec::resize(n, 0): truncate, or extend with zero bytes *)
Resize(s, n) == [i \in 1..n |-> IF i <= Len(s) THEN s[i] ELSE 0]

(* U256::to_big_endian of a value below 256 *)
to_big_endian(v) == [i \in 1..LANE |-> IF i = LANE THEN v ELSE 0]

(***************************************************************************)
(* The bn library: fields.                                                 *)
(***************************************************************************)
FqModulus == 7
FrModulus == 13

FieldOk(v) == [ok |-> TRUE, v |-> v]
FieldErr == [ok |-> FALSE, v |-> 0]

(* the big-endian value of buf is below m, m < 256 *)
Interpret(buf, m) ==
    IF \E i \in 1..(LANE - 1) : buf[i] # 0 THEN FieldErr
    ELSE IF buf[LANE] >= m THEN FieldErr
    ELSE FieldOk(buf[LANE])

Fq_interpret(buf) == Interpret(buf, FqModulus)
Fr_interpret(buf) == Interpret(buf, FrModulus)

FqAdd(a, b) == (a + b) % FqModulus
FqSub(a, b) == (a - b + FqModulus) % FqModulus
FqMul(a, b) == (a * b) % FqModulus
FqInv(a) == CHOOSE b \in 1..(FqModulus - 1) : FqMul(a, b) = 1

(* Fq2::new(real, imag), u^2 = -1 *)
Fq2_new(re, im) == [c0 |-> re, c1 |-> im]
Fq2Zero == Fq2_new(0, 0)
Fq2One == Fq2_new(1, 0)
Fq2_is_zero(a) == a.c0 = 0 /\ a.c1 = 0
Fq2Add(a, b) == Fq2_new(FqAdd(a.c0, b.c0), FqAdd(a.c1, b.c1))
Fq2Sub(a, b) == Fq2_new(FqSub(a.c0, b.c0), FqSub(a.c1, b.c1))
Fq2Mul(a, b) ==
    Fq2_new(FqSub(FqMul(a.c0, b.c0), FqMul(a.c1, b.c1)),
            FqAdd(FqMul(a.c0, b.c1), FqMul(a.c1, b.c0)))
Fq2Scale(k, a) == Fq2_new(FqMul(k, a.c0), FqMul(k, a.c1))
Fq2Inv(a) ==
    LET n == FqInv(FqAdd(FqMul(a.c0, a.c0), FqMul(a.c1, a.c1)))
    IN  Fq2_new(FqMul(a.c0, n), FqMul(FqSub(0, a.c1), n))


(***************************************************************************)
(* The bn library: G1, the curve y^2 = x^3 + 3 over Fq.  A G1 value is the *)
(* identity or an affine point.                                            *)
(***************************************************************************)
G1_B == 3

G1_zero == [inf |-> TRUE, x |-> 0, y |-> 0]
G1_point(x, y) == [inf |-> FALSE, x |-> x, y |-> y]

G1OnCurve(x, y) == FqMul(y, y) = FqAdd(FqMul(FqMul(x, x), x), G1_B % FqModulus)

G1Double(P) ==
    LET l == FqMul(FqMul(3, FqMul(P.x, P.x)), FqInv(FqMul(2, P.y)))
        x3 == FqSub(FqSub(FqMul(l, l), P.x), P.x)
    IN  G1_point(x3, FqSub(FqMul(l, FqSub(P.x, x3)), P.y))

G1Chord(P, Q) ==
    LET l == FqMul(FqSub(Q.y, P.y), FqInv(FqSub(Q.x, P.x)))
        x3 == FqSub(FqSub(FqMul(l, l), P.x), Q.x)
    IN  G1_point(x3, FqSub(FqMul(l, FqSub(P.x, x3)), P.y))

(* p1 + p2 *)
G1Add(P, Q) ==
    IF P.inf THEN Q
    ELSE IF Q.inf THEN P
    ELSE IF P.x = Q.x
         THEN IF P.y # Q.y \/ P.y = 0 THEN G1_zero ELSE G1Double(P)
         ELSE G1Chord(P, Q)

G1Neg(P) == IF P.inf THEN P ELSE G1_point(P.x, FqSub(0, P.y))

RECURSIVE G1Mul(_, _)
(* p * fr *)
G1Mul(P, k) == IF k = 0 THEN G1_zero ELSE G1Add(G1Mul(P, k - 1), P)

(* AffineG1::new(x, y): Err unless the point is on the curve *)
AffineG1_new(x, y) ==
    IF G1OnCurve(x, y) THEN [ok |-> TRUE, p |-> G1_point(x, y)]
    ELSE [ok |-> FALSE, p |-> G1_zero]

(* AffineG1::from_jacobian: None for the identity *)
AffineG1_from_jacobian(P) == [some |-> ~P.inf, x |-> P.x, y |-> P.y]

(***************************************************************************)
(* The bn library: G2, the order-r subgroup of the twist                   *)
(* y^2 = x^3 + 3/(9 + u) over Fq2.                                         *)
(***************************************************************************)
G2_B == Fq2Scale(3, Fq2Inv(Fq2_new(9 % FqModulus, 1)))

G2_zero == [inf |-> TRUE, x |-> Fq2Zero, y |-> Fq2Zero]
G2_point(x, y) == [inf |-> FALSE, x |-> x, y |-> y]

G2OnCurve(x, y) == Fq2Mul(y, y) = Fq2Add(Fq2Mul(Fq2Mul(x, x), x), G2_B)

G2Double(P) ==
    LET l == Fq2Mul(Fq2Scale(3, Fq2Mul(P.x, P.x)), Fq2Inv(Fq2Scale(2, P.y)))
        x3 == Fq2Sub(Fq2Sub(Fq2Mul(l, l), P.x), P.x)
    IN  G2_point(x3, Fq2Sub(Fq2Mul(l, Fq2Sub(P.x, x3)), P.y))

G2Chord(P, Q) ==
    LET l == Fq2Mul(Fq2Sub(Q.y, P.y), Fq2Inv(Fq2Sub(Q.x, P.x)))
        x3 == Fq2Sub(Fq2Sub(Fq2Mul(l, l), P.x), Q.x)
    IN  G2_point(x3, Fq2Sub(Fq2Mul(l, Fq2Sub(P.x, x3)), P.y))

G2Add(P, Q) ==
    IF P.inf THEN Q
    ELSE IF Q.inf THEN P
    ELSE IF P.x = Q.x
         THEN IF P.y # Q.y \/ Fq2_is_zero(P.y) THEN G2_zero ELSE G2Double(P)
         ELSE G2Chord(P, Q)

G2Neg(P) == IF P.inf THEN P ELSE G2_point(P.x, Fq2Sub(Fq2Zero, P.y))

RECURSIVE G2Mul(_, _)
G2Mul(P, k) == IF k = 0 THEN G2_zero ELSE G2Add(G2Mul(P, k - 1), P)

(* AffineG2::new(x, y): Err unless the point is on the twist and in the    *)
(* subgroup of order r                                                     *)
AffineG2_new(x, y) ==
    IF G2OnCurve(x, y) /\ G2Mul(G2_point(x, y), FrModulus) = G2_zero
    THEN [ok |-> TRUE, p |-> G2_point(x, y)]
    ELSE [ok |-> FALSE, p |-> G2_zero]

(***************************************************************************)
(* The bn library: Gt and the pairing.  Gt has order r and is written as   *)
(* the exponents of a generator: Gt::one() is 0 and s * t is s + t.  The   *)
(* pairing is the bilinear non-degenerate map with e(G1Gen, G2Gen) = 1.    *)
(***************************************************************************)
G1Gen == G1_point(1, 2)
G2Gen == G2_point(Fq2_new(1, 2), Fq2_new(3, 4))

G1Table == [k \in 0..(FrModulus - 1) |-> G1Mul(G1Gen, k)]
G2Table == [k \in 0..(FrModulus - 1) |-> G2Mul(G2Gen, k)]

G1Log(P) == CHOOSE k \in 0..(FrModulus - 1) : G1Table[k] = P
G2Log(Q) == CHOOSE k \in 0..(FrModulus - 1) : G2Table[k] = Q

Gt_one == 0
GtMul(s, t) == (s + t) % FrModulus
pairing(a, b) == (G1Log(a) * G2Log(b)) % FrModulus


(***************************************************************************)
(* read_point: the x and y of a G1 point at input[pos..pos+64).            *)
(***************************************************************************)
PointOk(p) == [ok |-> TRUE, p |-> p, error |-> ""]
PointErr(msg) == [ok |-> FALSE, p |-> G1_zero, error |-> msg]

(* the range of y reported before the range of x *)
read_point_y_first(in, pos) ==
    LET px == Fq_interpret(Slice(in, pos, pos + 32))
        py == Fq_interpret(Slice(in, pos + 32, pos + 64))
    IN  IF ~py.ok THEN PointErr("invalid y point")
        ELSE IF ~px.ok THEN PointErr("invalid x point")
        ELSE IF px.v = 0 /\ py.v = 0 THEN PointOk(G1_zero)
        ELSE LET a == AffineG1_new(px.v, py.v)
             IN  IF ~a.ok THEN PointErr("invalid curve point")
                 ELSE PointOk(a.p)

read_point(in, pos) ==
    LET px == Fq_interpret(Slice(in, pos, pos + 32))
        py == Fq_interpret(Slice(in, pos + 32, pos + 64))
    IN  IF ~px.ok THEN PointErr("invalid x point")
        ELSE IF ~py.ok THEN PointErr("invalid y point")
        ELSE IF px.v = 0 /\ py.v = 0 THEN PointOk(G1_zero)
        ELSE LET a == AffineG1_new(px.v, py.v)
             IN  IF ~a.ok THEN PointErr("invalid curve point")
                 ELSE PointOk(a.p)

(* an output without bytes for the identity *)
EncodeG1_empty_identity(P) ==
    LET aff == AffineG1_from_jacobian(P)
    IN  IF aff.some THEN to_big_endian(aff.x) \o to_big_endian(aff.y)
        ELSE <<>>

(* the 64-byte output buffer: zeros unless the point is affine *)
EncodeG1(P) ==
    LET aff == AffineG1_from_jacobian(P)
    IN  IF aff.some THEN to_big_endian(aff.x) \o to_big_endian(aff.y)
        ELSE [i \in 1..64 |-> 0]

(***************************************************************************)
(* BN128Add::run_inner                                                     *)
(***************************************************************************)
(* an addition of the first point to itself *)
BN128Add_run_inner_double(in0) ==
    LET in == Resize(in0, ADD_INPUT_LEN)
        p1 == read_point(in, 0)
        p2 == read_point(in, 64)
    IN  IF ~p1.ok THEN Other(p1.error)
        ELSE IF ~p2.ok THEN Other(p2.error)
        ELSE Returned(EncodeG1(G1Add(p1.p, p1.p)))

BN128Add_run_inner(in0) ==
    LET in == Resize(in0, ADD_INPUT_LEN)
        p1 == read_point(in, 0)
        p2 == read_point(in, 64)
    IN  IF ~p1.ok THEN Other(p1.error)
        ELSE IF ~p2.ok THEN Other(p2.error)
        ELSE Returned(EncodeG1(G1Add(p1.p, p2.p)))

(***************************************************************************)
(* BN128Mul::run_inner                                                     *)
(***************************************************************************)
(* the scalar interpreted before the point *)
BN128Mul_run_inner_scalar_first(in0) ==
    LET in == Resize(in0, MUL_INPUT_LEN)
        p == read_point(in, 0)
        fr == Fr_interpret(Slice(in, 64, 96))
    IN  IF ~fr.ok THEN Other("invalid field element")
        ELSE IF ~p.ok THEN Other(p.error)
        ELSE Returned(EncodeG1(G1Mul(p.p, fr.v)))

BN128Mul_run_inner(in0) ==
    LET in == Resize(in0, MUL_INPUT_LEN)
        p == read_point(in, 0)
        fr == Fr_interpret(Slice(in, 64, 96))
    IN  IF ~p.ok THEN Other(p.error)
        ELSE IF ~fr.ok THEN Other("invalid field element")
        ELSE Returned(EncodeG1(G1Mul(p.p, fr.v)))

(***************************************************************************)
(* BN128Pair::run_inner                                                    *)
(***************************************************************************)
ElemOk(a, b) == [ok |-> TRUE, a |-> a, b |-> b, error |-> ""]
ElemErr(msg) == [ok |-> FALSE, a |-> G1_zero, b |-> G2_zero, error |-> msg]

(* the G1 half of one element *)
PairA(ax, ay) ==
    IF ax = 0 /\ ay = 0 THEN [ok |-> TRUE, p |-> G1_zero]
    ELSE AffineG1_new(ax, ay)

(* the G2 half with each Fq2 built as (imag, real) *)
PairB_swapped(bay, bax, bby, bbx) ==
    LET ba == Fq2_new(bay, bax)
        bb == Fq2_new(bby, bbx)
    IN  IF Fq2_is_zero(ba) /\ Fq2_is_zero(bb) THEN [ok |-> TRUE, p |-> G2_zero]
        ELSE AffineG2_new(ba, bb)

(* the G2 half of one element, from the lanes in wire order *)
PairB(bay, bax, bby, bbx) ==
    LET ba == Fq2_new(bax, bay)
        bb == Fq2_new(bbx, bby)
    IN  IF Fq2_is_zero(ba) /\ Fq2_is_zero(bb) THEN [ok |-> TRUE, p |-> G2_zero]
        ELSE AffineG2_new(ba, bb)

(* the G1 curve test before the range tests of the G2 lanes *)
PairElement_curve_first(in, idx) ==
    LET base == idx * PAIR_ELEMENT_LEN
        ax  == Fq_interpret(Slice(in, base, base + 32))
        ay  == Fq_interpret(Slice(in, base + 32, base + 64))
        bay == Fq_interpret(Slice(in, base + 64, base + 96))
        bax == Fq_interpret(Slice(in, base + 96, base + 128))
        bby == Fq_interpret(Slice(in, base + 128, base + 160))
        bbx == Fq_interpret(Slice(in, base + 160, base + 192))
    IN  IF ~ax.ok THEN ElemErr("invalid a argument, x coordinate")
        ELSE IF ~ay.ok THEN ElemErr("invalid a argument, y coordinate")
        ELSE LET a == PairA(ax.v, ay.v)
             IN  IF ~a.ok THEN ElemErr("invalid a argument, not on curve")
                 ELSE IF ~bay.ok \/ ~bax.ok \/ ~bby.ok \/ ~bbx.ok
                 THEN ElemErr("invalid a argument, x coordinate")
                 ELSE LET b == PairB(bay.v, bax.v, bby.v, bbx.v)
                      IN  IF ~b.ok
                          THEN ElemErr("invalid b argument, not on curve")
                          ELSE ElemOk(a.p, b.p)

(* one iteration of the loop over the elements *)
PairElement(in, idx) ==
    LET base == idx * PAIR_ELEMENT_LEN
        ax  == Fq_interpret(Slice(in, base, base + 32))
        ay  == Fq_interpret(Slice(in, base + 32, base + 64))
        bay == Fq_interpret(Slice(in, base + 64, base + 96))
        bax == Fq_interpret(Slice(in, base + 96, base + 128))
        bby == Fq_interpret(Slice(in, base + 128, base + 160))
        bbx == Fq_interpret(Slice(in, base + 160, base + 192))
    IN  IF ~ax.ok THEN ElemErr("invalid a argument, x coordinate")
        ELSE IF ~ay.ok THEN ElemErr("invalid a argument, y coordinate")
        ELSE IF ~bay.ok THEN ElemErr("invalid a argument, x coordinate")
        ELSE IF ~bax.ok THEN ElemErr("invalid a argument, x coordinate")
        ELSE IF ~bby.ok THEN ElemErr("invalid a argument, x coordinate")
        ELSE IF ~bbx.ok THEN ElemErr("invalid a argument, x coordinate")
        ELSE LET a == PairA(ax.v, ay.v)
             IN  IF ~a.ok THEN ElemErr("invalid a argument, not on curve")
                 ELSE LET b == PairB(bay.v, bax.v, bby.v, bbx.v)
                      IN  IF ~b.ok
                          THEN ElemErr("invalid b argument, not on curve")
                          ELSE ElemOk(a.p, b.p)

RECURSIVE PairLoop(_, _, _, _)
(* for idx in 0..elements: the first error ends the call, else vals grows *)
PairLoop(in, idx, elements, vs) ==
    IF idx = elements THEN [ok |-> TRUE, vals |-> vs, error |-> ""]
    ELSE LET e == PairElement(in, idx)
         IN  IF ~e.ok THEN [ok |-> FALSE, vals |-> vs, error |-> e.error]
             ELSE PairLoop(in, idx + 1, elements, Append(vs, <<e.a, e.b>>))

RECURSIVE PairFold_skip_last(_, _, _)
(* a fold that stops one pair early *)
PairFold_skip_last(vs, i, s) ==
    IF i >= Len(vs) THEN s
    ELSE PairFold_skip_last(vs, i + 1, GtMul(s, pairing(vs[i][1], vs[i][2])))

RECURSIVE PairFold(_, _, _)
(* vals.into_iter().fold(Gt::one(), |s, (a, b)| s * pairing(a, b)) *)
PairFold(vs, i, s) ==
    IF i > Len(vs) THEN s
    ELSE PairFold(vs, i + 1, GtMul(s, pairing(vs[i][1], vs[i][2])))

(* the result and the decoded pairs *)
BN128Pair_run_inner(in) ==
    IF Len(in) % PAIR_ELEMENT_LEN # 0
    THEN [res |-> Other("input length invalid, must be multiple of 192"),
          vals |-> <<>>]
    ELSE IF Len(in) = 0
    THEN [res |-> Returned(to_big_endian(1)), vals |-> <<>>]
    ELSE LET elements == Len(in) \div PAIR_ELEMENT_LEN
             l == PairLoop(in, 0, elements, <<>>)
         IN  IF ~l.ok THEN [res |-> Other(l.error), vals |-> l.vals]
             ELSE LET mul == PairFold(l.vals, 1, Gt_one)
                  IN  [res |-> Returned(to_big_endian(
                                  IF mul = Gt_one THEN 1 ELSE 0)),
                       vals |-> l.vals]

(***************************************************************************)
(* impl Precompile: required_gas.  The u64 product PER_POINT * len is      *)
(* exact for every length below 2^64 / 80000, so for every input here.     *)
(***************************************************************************)
BN128Add_Byzantium_required_gas(in) == BYZANTIUM_ADD
BN128Add_Istanbul_required_gas(in) == ISTANBUL_ADD
BN128Mul_Byzantium_required_gas(in) == BYZANTIUM_MUL
BN128Mul_Istanbul_required_gas(in) == ISTANBUL_MUL

(* the price per whole element *)
BN128Pair_Byzantium_required_gas_per_element(in) ==
    BYZANTIUM_PAIR_PER_POINT * (Len(in) \div PAIR_ELEMENT_LEN)
        + BYZANTIUM_PAIR_BASE

BN128Pair_Byzantium_required_gas(in) ==
    (BYZANTIUM_PAIR_PER_POINT * Len(in)) \div PAIR_ELEMENT_LEN
        + BYZANTIUM_PAIR_BASE

BN128Pair_Istanbul_required_gas(in) ==
    (ISTANBUL_PAIR_PER_POINT * Len(in)) \div PAIR_ELEMENT_LEN
        + ISTANBUL_PAIR_BASE

(***************************************************************************)
(* impl Precompile: run                                                    *)
(***************************************************************************)
NoVals(res) == [res |-> res, vals |-> <<>>]

BN128Add_Byzantium_run(in, gas) ==
    IF BN128Add_Byzantium_required_gas(in) > gas THEN NoVals(OutOfGas)
    ELSE NoVals(BN128Add_run_inner(in))

BN128Add_Istanbul_run(in, gas) ==
    IF BN128Add_Istanbul_required_gas(in) > gas THEN NoVals(OutOfGas)
    ELSE NoVals(BN128Add_run_inner(in))

BN128Mul_Byzantium_run(in, gas) ==
    IF BN128Mul_Byzantium_required_gas(in) > gas THEN NoVals(OutOfGas)
    ELSE NoVals(BN128Mul_run_inner(in))

(* the Istanbul impl calling the run_inner of BN128Add *)
BN128Mul_Istanbul_run_add_inner(in, gas) ==
    IF BN128Mul_Istanbul_required_gas(in) > gas THEN NoVals(OutOfGas)
    ELSE NoVals(BN128Add_run_inner(in))

BN128Mul_Istanbul_run(in, gas) ==
    IF BN128Mul_Istanbul_required_gas(in) > gas THEN NoVals(OutOfGas)
    ELSE NoVals(BN128Mul_run_inner(in))

(* the decode before the gas gate *)
BN128Pair_Byzantium_run_decode_first(in, gas) ==
    LET r == BN128Pair_run_inner(in)
    IN  IF ~r.res.ok THEN r
        ELSE IF BN128Pair_Byzantium_required_gas(in) > gas THEN NoVals(OutOfGas)
        ELSE r

BN128Pair_Byzantium_run(in, gas) ==
    IF BN128Pair_Byzantium_required_gas(in) > gas THEN NoVals(OutOfGas)
    ELSE BN128Pair_run_inner(in)

BN128Pair_Istanbul_run(in, gas) ==
    IF BN128Pair_Istanbul_required_gas(in) > gas THEN NoVals(OutOfGas)
    ELSE BN128Pair_run_inner(in)


(***************************************************************************)
(* The calls the host makes: the inputs and gas limits the model draws.    *)
(***************************************************************************)
MaxElements == 2

Fill(b, n) == [i \in 1..n |-> b]
HighLane == Fill(17, LANE)
TopByteLane == [i \in 1..LANE |-> IF i = 1 THEN 2 ELSE 0]

Concat4(a, b, c, d) == a \o b \o c \o d
EncPoint(x, y) == to_big_endian(x) \o to_big_endian(y)
ElemOfLanes(t) ==
    to_big_endian(t[1]) \o to_big_endian(t[2]) \o to_big_endian(t[3])
        \o to_big_endian(t[4]) \o to_big_endian(t[5]) \o to_big_endian(t[6])

(* the first n bytes of b, or b followed by 0x11 bytes up to length n *)
Variant(b, n) ==
    IF n <= Len(b) THEN SubSeq(b, 1, n) ELSE b \o Fill(17, n - Len(b))

G1All == {G1Table[k] : k \in 0..(FrModulus - 1)}

PointEncs ==
    {EncPoint(P.x, P.y) : P \in G1All}
        \cup {EncPoint(7, 2), EncPoint(1, 7), EncPoint(7, 7), EncPoint(1, 1),
              EncPoint(0, 1), EncPoint(1, 0), HighLane \o HighLane}

AddLens == {0, 32, 64, 65, 96, 127, 128, 129}
AddInputs == {Variant(a \o b, n) : a \in PointEncs, b \in PointEncs, n \in AddLens}

ScalarLanes ==
    {to_big_endian(k) : k \in {0, 1, 2, 12, 13, 14, 255}}
        \cup {HighLane, TopByteLane}
MulLens == {0, 64, 65, 95, 96, 97, 128, 129}
MulInputs ==
    {Variant(a \o k \o t, n) :
        a \in PointEncs, k \in ScalarLanes,
        t \in {to_big_endian(0), HighLane}, n \in MulLens}

(* lanes in wire order: G1.x, G1.y, G2.x imag, G2.x real, G2.y imag, G2.y real *)
EncG2(Q) == <<Q.x.c1, Q.x.c0, Q.y.c1, Q.y.c0>>
ValidElems ==
    {ElemOfLanes(<<e[1].x, e[1].y>> \o EncG2(e[2])) : e \in
        {<<G1Table[1], G2Table[1]>>, <<G1Table[FrModulus - 1], G2Table[1]>>,
         <<G1Table[1], G2Table[2]>>, <<G1Table[0], G2Table[1]>>,
         <<G1Table[0], G2Table[0]>>}}
InvalidElems ==
    {ElemOfLanes(t) : t \in
        {<<7, 2, 2, 1, 4, 3>>, <<1, 7, 2, 1, 4, 3>>, <<1, 2, 7, 1, 4, 3>>,
         <<1, 2, 2, 7, 4, 3>>, <<1, 2, 2, 1, 7, 3>>, <<1, 2, 2, 1, 4, 7>>,
         <<1, 1, 2, 1, 4, 3>>, <<1, 2, 1, 0, 2, 1>>,
         <<1, 1, 2, 1, 4, 7>>, <<1, 1, 1, 2, 3, 4>>, <<7, 7, 2, 1, 4, 3>>}}
Elems == ValidElems \cup InvalidElems

RECURSIVE ElemSeqs(_)
(* the concatenations of at most n elements *)
ElemSeqs(n) ==
    IF n = 0 THEN {<<>>}
    ELSE LET shorter == ElemSeqs(n - 1)
         IN  shorter \cup {s \o e : s \in shorter, e \in Elems}

RaggedLens == {1, 2, 66, 79, 96, 191, 193, 258}
RaggedInputs ==
    {Fill(b, n) : b \in {0, 17, 255}, n \in RaggedLens}
        \cup {Variant(ElemOfLanes(<<1, 2, 2, 1, 4, 3>>), n) : n \in RaggedLens}
PairInputs == ElemSeqs(MaxElements) \cup RaggedInputs

AddGas == {BYZANTIUM_ADD - 1, BYZANTIUM_ADD, ISTANBUL_ADD - 1, ISTANBUL_ADD}
MulGas == {BYZANTIUM_MUL - 1, BYZANTIUM_MUL, ISTANBUL_MUL - 1, ISTANBUL_MUL}

(* the gas limits around the per-element and the per-byte price of in *)
PairGasAt(in, per, base) ==
    LET g1 == per * (Len(in) \div PAIR_ELEMENT_LEN) + base
        g2 == (per * Len(in)) \div PAIR_ELEMENT_LEN + base
    IN  {g1 - 1, g1, g2 - 1, g2}
PairGas(in) ==
    PairGasAt(in, BYZANTIUM_PAIR_PER_POINT, BYZANTIUM_PAIR_BASE)
        \cup PairGasAt(in, ISTANBUL_PAIR_PER_POINT, ISTANBUL_PAIR_BASE)
        \cup {260000}

Inputs(o) ==
    IF o = "add" THEN AddInputs ELSE IF o = "mul" THEN MulInputs ELSE PairInputs
GasLimits(o, in) ==
    IF o = "add" THEN AddGas ELSE IF o = "mul" THEN MulGas ELSE PairGas(in)

(***************************************************************************)
(* The state machine: one call, from its arguments to its result.          *)
(***************************************************************************)
Init ==
    /\ op \in {"add", "mul", "pair"}
    /\ fork \in {"Byzantium", "Istanbul"}
    /\ entry \in {"required_gas", "run"}
    /\ input \in Inputs(op)
    /\ target_gas \in (IF entry = "run" THEN GasLimits(op, input) ELSE {0})
    /\ pc = "call"
    /\ result = None
    /\ vals = <<>>

Called(o, f, e) == pc = "call" /\ op = o /\ fork = f /\ entry = e

Return(r) ==
    /\ pc' = "done"
    /\ result' = r.res
    /\ vals' = r.vals
    /\ UNCHANGED <<op, fork, entry, input, target_gas>>

AddByzantiumRequiredGas ==
    /\ Called("add", "Byzantium", "required_gas")
    /\ Return(NoVals(GasOk(BN128Add_Byzantium_required_gas(input))))
AddIstanbulRequiredGas ==
    /\ Called("add", "Istanbul", "required_gas")
    /\ Return(NoVals(GasOk(BN128Add_Istanbul_required_gas(input))))
MulByzantiumRequiredGas ==
    /\ Called("mul", "Byzantium", "required_gas")
    /\ Return(NoVals(GasOk(BN128Mul_Byzantium_required_gas(input))))
MulIstanbulRequiredGas ==
    /\ Called("mul", "Istanbul", "required_gas")
    /\ Return(NoVals(GasOk(BN128Mul_Istanbul_required_gas(input))))
PairByzantiumRequiredGas ==
    /\ Called("pair", "Byzantium", "required_gas")
    /\ Return(NoVals(GasOk(BN128Pair_Byzantium_required_gas(input))))
PairIstanbulRequiredGas ==
    /\ Called("pair", "Istanbul", "required_gas")
    /\ Return(NoVals(GasOk(BN128Pair_Istanbul_required_gas(input))))

AddByzantiumRun ==
    /\ Called("add", "Byzantium", "run")
    /\ Return(BN128Add_Byzantium_run(input, target_gas))
AddIstanbulRun ==
    /\ Called("add", "Istanbul", "run")
    /\ Return(BN128Add_Istanbul_run(input, target_gas))
MulByzantiumRun ==
    /\ Called("mul", "Byzantium", "run")
    /\ Return(BN128Mul_Byzantium_run(input, target_gas))
MulIstanbulRun ==
    /\ Called("mul", "Istanbul", "run")
    /\ Return(BN128Mul_Istanbul_run(input, target_gas))
PairByzantiumRun ==
    /\ Called("pair", "Byzantium", "run")
    /\ Return(BN128Pair_Byzantium_run(input, target_gas))
PairIstanbulRun ==
    /\ Called("pair", "Istanbul", "run")
    /\ Return(BN128Pair_Istanbul_run(input, target_gas))

Next ==
    \/ AddByzantiumRequiredGas
    \/ AddIstanbulRequiredGas
    \/ MulByzantiumRequiredGas
    \/ MulIstanbulRequiredGas
    \/ PairByzantiumRequiredGas
    \/ PairIstanbulRequiredGas
    \/ AddByzantiumRun
    \/ AddIstanbulRun
    \/ MulByzantiumRun
    \/ MulIstanbulRun
    \/ PairByzantiumRun
    \/ PairIstanbulRun

Spec == Init /\ [][Next]_vars


(***************************************************************************)
(* Properties.                                                             *)
(***************************************************************************)
RequiredGas(o, f, in) ==
    IF o = "add"
    THEN IF f = "Byzantium" THEN BN128Add_Byzantium_required_gas(in)
         ELSE BN128Add_Istanbul_required_gas(in)
    ELSE IF o = "mul"
    THEN IF f = "Byzantium" THEN BN128Mul_Byzantium_required_gas(in)
         ELSE BN128Mul_Istanbul_required_gas(in)
    ELSE IF f = "Byzantium" THEN BN128Pair_Byzantium_required_gas(in)
         ELSE BN128Pair_Istanbul_required_gas(in)

RunDone == pc = "done" /\ entry = "run"
GasDone == pc = "done" /\ entry = "required_gas"
Zeros64 == [i \in 1..64 |-> 0]
FramingError == Other("input length invalid, must be multiple of 192")

(* C1: gas-first ordering.  For each operation and fork, a run whose       *)
(* required gas exceeds the gas limit returns exactly OutOfGas, whatever   *)
(* the input bytes are.                                                    *)
C1_GasFirst ==
    (RunDone /\ RequiredGas(op, fork, input) > target_gas) => result = OutOfGas

(* an ECPAIRING input of a length that is no multiple of 192, short of gas *)
C1_Witness ==
    /\ RunDone
    /\ op = "pair"
    /\ fork = "Byzantium"
    /\ Len(input) % PAIR_ELEMENT_LEN # 0
    /\ RequiredGas(op, fork, input) > target_gas
    /\ result = OutOfGas


(* the gas schedule as stated: constant for ECADD and ECMUL, and           *)
(* per_point * n + base with n = len/192 for ECPAIRING                     *)
PerPoint(f) ==
    IF f = "Byzantium" THEN BYZANTIUM_PAIR_PER_POINT ELSE ISTANBUL_PAIR_PER_POINT
PairBase(f) ==
    IF f = "Byzantium" THEN BYZANTIUM_PAIR_BASE ELSE ISTANBUL_PAIR_BASE
StatedGas(o, f, in) ==
    IF o = "add" THEN (IF f = "Byzantium" THEN 500 ELSE 150)
    ELSE IF o = "mul" THEN (IF f = "Byzantium" THEN 40000 ELSE 6000)
    ELSE PerPoint(f) * (Len(in) \div 192) + PairBase(f)

(* C2: gas schedule.  required_gas is 500 / 150 for ECADD, 40000 / 6000    *)
(* for ECMUL and, with n = len(input)/192, 80000*n + 100000 /              *)
(* 34000*n + 45000 for ECPAIRING, and run passes the gas gate exactly when *)
(* the gas limit is at least that value.                                   *)
C2_GasSchedule ==
    /\ GasDone => result = GasOk(StatedGas(op, fork, input))
    /\ RunDone => ((result # OutOfGas) <=> (target_gas >= StatedGas(op, fork, input)))

(* C3: ECPAIRING on a 66-byte input returns the framing error for every    *)
(* gas limit >= 100000 under Byzantium and >= 45000 under Istanbul.        *)
C3_Framing66 ==
    (RunDone /\ op = "pair" /\ Len(input) = 66 /\ target_gas >= PairBase(fork))
        => result = FramingError

(* the two halves of the input cut after k bytes *)
Prefix(in, k) == SubSeq(in, 1, k)
Suffix(in, k) == SubSeq(in, k + 1, Len(in))
NoCarry(f, la, lb) ==
    ((PerPoint(f) * la) % PAIR_ELEMENT_LEN)
        + ((PerPoint(f) * lb) % PAIR_ELEMENT_LEN) < PAIR_ELEMENT_LEN

(* C4 as stated: for ECPAIRING and all byte strings a and b,               *)
(* required_gas(a || b) = required_gas(a) + per_point * len(b) / 192.      *)
C4_GasAdditive ==
    (GasDone /\ op = "pair") =>
        \A k \in 0..Len(input) :
            result.gas = RequiredGas(op, fork, Prefix(input, k))
                + (PerPoint(fork) * Len(Suffix(input, k))) \div PAIR_ELEMENT_LEN

(* C4: gas additivity in length for ECPAIRING, amended.                    *)
(* required_gas(a || b) = required_gas(a) + per_point * len(b) / 192 holds *)
(* exactly when (per_point * len(a) mod 192) + (per_point * len(b) mod     *)
(* 192) < 192, in particular when len(a) or len(b) is a multiple of 192;   *)
(* for every other a and b the left side is larger by 1.                   *)
C4_GasAdditiveAmended ==
    (GasDone /\ op = "pair") =>
        \A k \in 0..Len(input) :
            LET a == Prefix(input, k)
                b == Suffix(input, k)
                rhs == RequiredGas(op, fork, a)
                         + (PerPoint(fork) * Len(b)) \div PAIR_ELEMENT_LEN
            IN  /\ (Len(a) % PAIR_ELEMENT_LEN = 0 \/ Len(b) % PAIR_ELEMENT_LEN = 0)
                       => NoCarry(fork, Len(a), Len(b))
                /\ NoCarry(fork, Len(a), Len(b)) => result.gas = rhs
                /\ ~NoCarry(fork, Len(a), Len(b)) => result.gas = rhs + 1

(* required_gas of one element followed by 66 more bytes *)
C4_Witness ==
    /\ GasDone
    /\ op = "pair"
    /\ fork = "Byzantium"
    /\ Len(input) = 258
    /\ result.gas = RequiredGas(op, fork, Prefix(input, 192)) + 27500
    /\ result.gas = RequiredGas(op, fork, Prefix(input, 1))
                        + (BYZANTIUM_PAIR_PER_POINT * 257) \div 192 + 1


(* the result of run on another input *)
RunOf(o, f, in, gas) ==
    IF o = "add"
    THEN IF f = "Byzantium" THEN BN128Add_Byzantium_run(in, gas).res
         ELSE BN128Add_Istanbul_run(in, gas).res
    ELSE IF o = "mul"
    THEN IF f = "Byzantium" THEN BN128Mul_Byzantium_run(in, gas).res
         ELSE BN128Mul_Istanbul_run(in, gas).res
    ELSE IF f = "Byzantium" THEN BN128Pair_Byzantium_run(in, gas).res
         ELSE BN128Pair_Istanbul_run(in, gas).res

GasSuffices == target_gas >= RequiredGas(op, fork, input)

(* the input cut to 128 bytes, or right-padded with zero bytes to 128 *)
PadTo128(in) ==
    IF Len(in) >= 128 THEN SubSeq(in, 1, 128)
    ELSE in \o [i \in 1..(128 - Len(in)) |-> 0]

(* C5: padding and truncation equivalence.  For ECADD and ECMUL with       *)
(* sufficient gas, run(input) returns the result of run on the input       *)
(* right-padded with zeros to 128 bytes or cut to its first 128 bytes; for *)
(* ECMUL the result does not depend on the bytes at offsets >= 96; the     *)
(* empty input yields 64 zero bytes.                                       *)
C5_Padding ==
    (RunDone /\ op \in {"add", "mul"} /\ GasSuffices) =>
        /\ result = RunOf(op, fork, PadTo128(input), target_gas)
        /\ op = "mul" =>
             \A t \in {Fill(0, 32), HighLane, Fill(255, 32)} :
                 result = RunOf(op, fork, SubSeq(PadTo128(input), 1, 96) \o t,
                                target_gas)
        /\ input = <<>> => result = Returned(Zeros64)

(* ECADD of a 65-byte input: a point and one more byte *)
C5_Witness ==
    /\ RunDone
    /\ op = "add"
    /\ GasSuffices
    /\ Len(input) = 65
    /\ result.ok
    /\ result.output # Zeros64
    /\ result = RunOf(op, fork, PadTo128(input), target_gas)

(* C6: result shape.  Every run ends in an error without output bytes, or  *)
(* in status Returned with cost 0 and an output of exactly 64 bytes for    *)
(* ECADD and ECMUL and exactly 32 bytes for ECPAIRING.                     *)
C6_ResultShape ==
    RunDone =>
        \/ /\ ~result.ok
           /\ DOMAIN result = {"ok", "error"}
        \/ /\ result.ok
           /\ DOMAIN result = {"ok", "status", "output", "cost"}
           /\ result.status = "Returned"
           /\ result.cost = 0
           /\ Len(result.output) = (IF op = "pair" THEN 32 ELSE 64)
           /\ \A i \in 1..Len(result.output) : result.output[i] \in 0..255

(* ECMUL returning the identity, as 64 bytes *)
C6_Witness ==
    /\ RunDone
    /\ op = "mul"
    /\ result.ok
    /\ result.status = "Returned"
    /\ result.cost = 0
    /\ result.output = Zeros64
    /\ Len(input) = 96
    /\ input # Fill(0, 96)


(* the value of the 32-byte lane at byte offset off, and whether it is     *)
(* below the modulus m                                                     *)
LaneAt(in, off) == Slice(in, off, off + 32)
LaneValue(in, off) == in[off + 32]
Canonical(in, off, m) ==
    /\ \A i \in 1..31 : in[off + i] = 0
    /\ in[off + 32] < m

(* element idx of a pairing input as EIP-197 lays it out *)
StatedA(in, idx) ==
    LET x == LaneValue(in, idx * 192)
        y == LaneValue(in, idx * 192 + 32)
    IN  IF x = 0 /\ y = 0 THEN G1_zero ELSE G1_point(x, y)
StatedB(in, idx) ==
    LET xi == LaneValue(in, idx * 192 + 64)
        xr == LaneValue(in, idx * 192 + 96)
        yi == LaneValue(in, idx * 192 + 128)
        yr == LaneValue(in, idx * 192 + 160)
    IN  IF xi = 0 /\ xr = 0 /\ yi = 0 /\ yr = 0 THEN G2_zero
        ELSE G2_point(Fq2_new(xr, xi), Fq2_new(yr, yi))
ElementDecodes(in, idx) ==
    /\ \A l \in 0..5 : Canonical(in, idx * 192 + 32 * l, FqModulus)
    /\ LET A == StatedA(in, idx)
           B == StatedB(in, idx)
       IN  /\ A.inf \/ G1OnCurve(A.x, A.y)
           /\ B.inf \/ (G2OnCurve(B.x, B.y) /\ G2Mul(B, FrModulus) = G2_zero)
AllDecode(in) ==
    /\ Len(in) % 192 = 0
    /\ \A idx \in 0..(Len(in) \div 192 - 1) : ElementDecodes(in, idx)

RECURSIVE StatedProduct(_, _)
(* the product of pairing(A_i, B_i) over the first n elements *)
StatedProduct(in, n) ==
    IF n = 0 THEN Gt_one
    ELSE GtMul(StatedProduct(in, n - 1),
               pairing(StatedA(in, n - 1), StatedB(in, n - 1)))

(* C7: ECPAIRING semantics.  With sufficient gas, an input whose length is *)
(* a multiple of 192 and whose elements all decode returns the 32-byte     *)
(* big-endian 1 if the product of pairing(A_i, B_i) is the identity of Gt, *)
(* and the 32-byte 0 otherwise; the empty input returns 1.                 *)
C7_PairingSemantics ==
    (RunDone /\ op = "pair" /\ GasSuffices /\ AllDecode(input)) =>
        /\ result = Returned(to_big_endian(
               IF StatedProduct(input, Len(input) \div 192) = Gt_one
               THEN 1 ELSE 0))
        /\ input = <<>> => result = Returned(to_big_endian(1))

(* two pairings, neither the identity, whose product is the identity *)
C7_Witness ==
    /\ RunDone
    /\ op = "pair"
    /\ Len(input) = 384
    /\ AllDecode(input)
    /\ pairing(StatedA(input, 0), StatedB(input, 0)) # Gt_one
    /\ pairing(StatedA(input, 1), StatedB(input, 1)) # Gt_one
    /\ result = Returned(to_big_endian(1))

(* one element with the real and imaginary lanes of G2.x, or of G2.y,      *)
(* exchanged                                                               *)
ElementAt(in, idx) == Slice(in, idx * 192, idx * 192 + 192)
SwapX(e) ==
    LaneAt(e, 0) \o LaneAt(e, 32) \o LaneAt(e, 96) \o LaneAt(e, 64)
        \o LaneAt(e, 128) \o LaneAt(e, 160)
SwapY(e) ==
    LaneAt(e, 0) \o LaneAt(e, 32) \o LaneAt(e, 64) \o LaneAt(e, 96)
        \o LaneAt(e, 160) \o LaneAt(e, 128)

(* C8: ECPAIRING lane ordering.  In each element the G1 point is built     *)
(* from x = lane 0 and y = lane 32, and the G2 point from                  *)
(* Fq2(real = lane 96, imag = lane 64) and Fq2(real = lane 160,            *)
(* imag = lane 128); exchanging the real and imaginary lanes of either     *)
(* Fq2 changes the point that is validated and paired.  An input whose    *)
(* elements are all valid in that layout is accepted.                      *)
C8_LaneOrder ==
    (RunDone /\ op = "pair" /\ GasSuffices /\ Len(input) % 192 = 0) =>
        /\ result.ok => Len(vals) = Len(input) \div 192
        /\ AllDecode(input) => result.ok
        /\ \A i \in 1..Len(vals) :
             LET e == ElementAt(input, i - 1)
                 sx == PairElement(SwapX(e), 0)
                 sy == PairElement(SwapY(e), 0)
             IN  /\ vals[i] = <<StatedA(input, i - 1), StatedB(input, i - 1)>>
                 /\ LaneAt(e, 64) # LaneAt(e, 96) =>
                        (~sx.ok \/ sx.b # vals[i][2])
                 /\ LaneAt(e, 128) # LaneAt(e, 160) =>
                        (~sy.ok \/ sy.b # vals[i][2])

(* the G2 generator is decoded from the lanes 2, 1, 4, 3, and the element  *)
(* with the lanes of G2.x exchanged is rejected                            *)
C8_Witness ==
    /\ RunDone
    /\ op = "pair"
    /\ result.ok
    /\ Len(vals) = 1
    /\ vals[1][1] = G1Gen
    /\ vals[1][2] = G2Gen
    /\ LaneValue(input, 64) = 2
    /\ LaneValue(input, 96) = 1
    /\ ~PairElement(SwapX(ElementAt(input, 0)), 0).ok


(* the decode error of the 64-byte G1 point at offset pos, "" if none *)
StatedPointError(in, pos) ==
    IF ~Canonical(in, pos, FqModulus) THEN "invalid x point"
    ELSE IF ~Canonical(in, pos + 32, FqModulus) THEN "invalid y point"
    ELSE IF LaneValue(in, pos) = 0 /\ LaneValue(in, pos + 32) = 0 THEN ""
    ELSE IF ~G1OnCurve(LaneValue(in, pos), LaneValue(in, pos + 32))
    THEN "invalid curve point"
    ELSE ""
StatedPoint(in, pos) ==
    IF LaneValue(in, pos) = 0 /\ LaneValue(in, pos + 32) = 0 THEN G1_zero
    ELSE G1_point(LaneValue(in, pos), LaneValue(in, pos + 32))

(* C9: ECMUL scalar handling.  With sufficient gas and a validly decoded   *)
(* point, a scalar lane input[64..96] (after padding) whose value is not   *)
(* below the order of Fr fails with 'invalid field element' and is never   *)
(* reduced; a point decode error takes precedence over the scalar error.   *)
C9_MulScalar ==
    (RunDone /\ op = "mul" /\ GasSuffices) =>
        LET in == PadTo128(input)
            perr == StatedPointError(in, 0)
        IN  /\ perr # "" => result = Other(perr)
            /\ (perr = "" /\ ~Canonical(in, 64, FrModulus)) =>
                   result = Other("invalid field element")
            /\ (perr = "" /\ Canonical(in, 64, FrModulus)) => result.ok

(* the generator times the order of Fr itself: an error, not the identity  *)
C9_Witness ==
    /\ RunDone
    /\ op = "mul"
    /\ GasSuffices
    /\ StatedPointError(PadTo128(input), 0) = ""
    /\ StatedPoint(PadTo128(input), 0) = G1Gen
    /\ LaneAt(PadTo128(input), 64) = to_big_endian(FrModulus)
    /\ result = Other("invalid field element")

(* C10: identity encoding.  With sufficient gas, ECADD of a valid point    *)
(* and its affine negation (x, p - y), ECADD of infinity and infinity,     *)
(* ECMUL of a valid point by scalar 0 and ECMUL of infinity by a valid     *)
(* scalar return exactly 64 zero bytes, and a result that is not the       *)
(* identity is never encoded as 64 zero bytes.                             *)
C10_IdentityEncoding ==
    (RunDone /\ op \in {"add", "mul"} /\ GasSuffices) =>
        LET in == PadTo128(input)
            P1 == StatedPoint(in, 0)
            P2 == StatedPoint(in, 64)
            k == LaneValue(in, 64)
        IN  /\ (op = "add" /\ StatedPointError(in, 0) = "" /\ ~P1.inf
                  /\ Canonical(in, 64, FqModulus) /\ Canonical(in, 96, FqModulus)
                  /\ P2 = G1_point(P1.x, FqModulus - P1.y))
                   => result = Returned(Zeros64)
            /\ (op = "add" /\ in = Fill(0, 128)) => result = Returned(Zeros64)
            /\ (op = "mul" /\ StatedPointError(in, 0) = ""
                  /\ LaneAt(in, 64) = Fill(0, 32))
                   => result = Returned(Zeros64)
            /\ (op = "mul" /\ LaneAt(in, 0) = Fill(0, 32)
                  /\ LaneAt(in, 32) = Fill(0, 32)
                  /\ Canonical(in, 64, FrModulus))
                   => result = Returned(Zeros64)
            /\ (op = "add" /\ result.ok /\ result.output = Zeros64)
                   => (G1Log(P1) + G1Log(P2)) % FrModulus = 0
            /\ (op = "mul" /\ result.ok /\ result.output = Zeros64)
                   => (k * G1Log(P1)) % FrModulus = 0
            /\ (op = "add" /\ result.ok /\ result.output # Zeros64)
                   => (G1Log(P1) + G1Log(P2)) % FrModulus # 0
            /\ (op = "mul" /\ result.ok /\ result.output # Zeros64)
                   => (k * G1Log(P1)) % FrModulus # 0

(* the generator (1, 2) plus its negation (1, 5) *)
C10_Witness ==
    /\ RunDone
    /\ op = "add"
    /\ GasSuffices
    /\ StatedPoint(PadTo128(input), 0) = G1Gen
    /\ StatedPoint(PadTo128(input), 64) = G1_point(1, FqModulus - 2)
    /\ StatedPointError(PadTo128(input), 0) = ""
    /\ StatedPointError(PadTo128(input), 64) = ""
    /\ result = Returned(Zeros64)


OtherFork(f) == IF f = "Byzantium" THEN "Istanbul" ELSE "Byzantium"

(* C11: cross-fork equivalence.  For each operation and every input, a     *)
(* Byzantium run and an Istanbul run whose gas limits both reach the       *)
(* required gas of their fork return the identical result; the fork        *)
(* changes nothing but the OutOfGas threshold.                             *)
C11_CrossFork ==
    (RunDone /\ GasSuffices) =>
        \A g \in GasLimits(op, input) :
            g >= RequiredGas(op, OtherFork(fork), input) =>
                result = RunOf(op, OtherFork(fork), input, g)

(* ECMUL of the generator by 2 under Byzantium with gas 40000, and under   *)
(* Istanbul with gas 6000                                                  *)
C11_Witness ==
    /\ RunDone
    /\ op = "mul"
    /\ fork = "Byzantium"
    /\ target_gas = BYZANTIUM_MUL
    /\ Len(input) = 96
    /\ StatedPoint(input, 0) = G1Gen
    /\ LaneAt(input, 64) = to_big_endian(2)
    /\ result.ok
    /\ result.output # Zeros64
    /\ result = RunOf(op, "Istanbul", input, ISTANBUL_MUL)


XCoordinateError == Other("invalid a argument, x coordinate")
YCoordinateError == Other("invalid a argument, y coordinate")

(* some element of in has an out-of-range Fq in the lane at offset off *)
SomeLaneOutOfRange(in, off) ==
    \E idx \in 0..(Len(in) \div 192 - 1) :
        ~Canonical(in, idx * 192 + off, FqModulus)

(* C12: ECPAIRING coordinate errors.  'invalid a argument, x coordinate'   *)
(* is returned only when the lane at offset 0 of some element is out of    *)
(* the Fq range, and 'invalid a argument, y coordinate' only when the lane *)
(* at offset 32 is; an out-of-range Fq in a G2 lane (offsets 64..192)      *)
(* produces neither.                                                       *)
C12_CoordinateErrors ==
    (RunDone /\ op = "pair") =>
        /\ result = XCoordinateError => SomeLaneOutOfRange(input, 0)
        /\ result = YCoordinateError => SomeLaneOutOfRange(input, 32)


(* C13: G1 decode precedence in ECADD and ECMUL.  With sufficient gas a    *)
(* 64-byte point reports 'invalid x point' if x is out of the Fq range,    *)
(* else 'invalid y point' if y is, else is the identity if it is (0, 0),   *)
(* with no on-curve check, else reports 'invalid curve point' if it is not *)
(* on y^2 = x^3 + 3; ECADD reports any error of P1 = input[0..64] in       *)
(* preference to any error of P2 = input[64..128].                         *)
C13_DecodePrecedence ==
    (RunDone /\ op \in {"add", "mul"} /\ GasSuffices) =>
        LET in == PadTo128(input)
            e1 == StatedPointError(in, 0)
            e2 == StatedPointError(in, 64)
        IN  /\ e1 # "" => result = Other(e1)
            /\ (op = "add" /\ e1 = "" /\ e2 # "") => result = Other(e2)
            /\ (op = "add" /\ e1 = "" /\ e2 = "") => result.ok
            /\ (op = "add" /\ e2 = "" /\ LaneAt(in, 0) = Fill(0, 32)
                  /\ LaneAt(in, 32) = Fill(0, 32))
                   => result = Returned(Slice(in, 64, 128))
            /\ (op = "add" /\ e1 = "" /\ LaneAt(in, 64) = Fill(0, 32)
                  /\ LaneAt(in, 96) = Fill(0, 32))
                   => result = Returned(Slice(in, 0, 64))

(* ECADD where x and y of P1 are both out of range and P2 is off the curve *)
C13_Witness ==
    /\ RunDone
    /\ op = "add"
    /\ GasSuffices
    /\ Len(input) = 128
    /\ ~Canonical(input, 0, FqModulus)
    /\ ~Canonical(input, 32, FqModulus)
    /\ StatedPointError(input, 64) = "invalid curve point"
    /\ result = Other("invalid x point")


(* the first check that element idx fails, in the order: range of the      *)
(* lanes at 0, 32, 64, 96, 128, 160, then G1 on the curve, then G2         *)
ElementFault(in, idx) ==
    LET A == StatedA(in, idx)
        B == StatedB(in, idx)
    IN  IF ~Canonical(in, idx * 192, FqModulus) THEN "range of lane 0"
        ELSE IF ~Canonical(in, idx * 192 + 32, FqModulus) THEN "range of lane 32"
        ELSE IF \E l \in 2..5 : ~Canonical(in, idx * 192 + 32 * l, FqModulus)
        THEN "range of a G2 lane"
        ELSE IF ~(A.inf \/ G1OnCurve(A.x, A.y)) THEN "G1 on curve"
        ELSE IF ~(B.inf \/ (G2OnCurve(B.x, B.y) /\ G2Mul(B, FrModulus) = G2_zero))
        THEN "G2 on curve"
        ELSE ""

(* the errors a failed check may report; which of the two coordinate       *)
(* messages a G2 lane reports is not fixed here                            *)
FaultErrors(fault) ==
    IF fault = "range of lane 0" THEN {XCoordinateError}
    ELSE IF fault = "range of lane 32" THEN {YCoordinateError}
    ELSE IF fault = "range of a G2 lane" THEN {XCoordinateError, YCoordinateError}
    ELSE IF fault = "G1 on curve" THEN {Other("invalid a argument, not on curve")}
    ELSE {Other("invalid b argument, not on curve")}

RECURSIVE FirstFault(_, _, _)
(* the first element from idx on that fails a check, n if none does *)
FirstFault(in, idx, n) ==
    IF idx = n THEN [idx |-> n, fault |-> ""]
    ELSE IF ElementFault(in, idx) # "" THEN [idx |-> idx, fault |-> ElementFault(in, idx)]
    ELSE FirstFault(in, idx + 1, n)

(* C14: ECPAIRING check order.  Once the gas gate passes, the checks run   *)
(* in the order framing (len % 192), then the elements by increasing       *)
(* index, and in one element the six Fq range checks in lane order, then   *)
(* the G1 on-curve check, then the G2 check.  The error is that of the     *)
(* first failing check, a framing error is returned whatever the lanes     *)
(* hold, and no pairing is evaluated unless every element has decoded.     *)
C14_CheckOrder ==
    (RunDone /\ op = "pair" /\ GasSuffices) =>
        IF Len(input) % 192 # 0
        THEN result = FramingError /\ vals = <<>>
        ELSE LET n == Len(input) \div 192
                 first == FirstFault(input, 0, n)
             IN  /\ Len(vals) = first.idx
                 /\ \A i \in 1..Len(vals) : ElementFault(input, i - 1) = ""
                 /\ first.fault # "" => result \in FaultErrors(first.fault)
                 /\ first.fault = "" => result.ok
                 /\ result.ok => AllDecode(input)

(* a decoded element followed by one whose G1 point is off the curve and   *)
(* whose lane at 160 is out of range: the range error is reported          *)
C14_Witness ==
    /\ RunDone
    /\ op = "pair"
    /\ GasSuffices
    /\ Len(input) = 384
    /\ ElementFault(input, 0) = ""
    /\ Canonical(input, 192, FqModulus)
    /\ Canonical(input, 224, FqModulus)
    /\ ~G1OnCurve(LaneValue(input, 192), LaneValue(input, 224))
    /\ ~Canonical(input, 192 + 160, FqModulus)
    /\ Len(vals) = 1
    /\ result = XCoordinateError

=============================================================================
